---- MODULE Spec2Model ----
(***************************************************************************)
(* State-machine model of the MQTT entity layer of appdaemon-framework:    *)
(* mqtt_entites.py (MQTTDevice and the six entity variants),               *)
(* user_namespace.py (UserNamespace) and utils.py (state coercion).        *)
(*                                                                         *)
(* Python values are tagged tuples.  Text is a sequence of one-character  *)
(* strings so that str.lower() and float() are computed, not assumed.      *)
(* Floats are held as a whole number of tenths (3.5 is 35); the texts the  *)
(* model draws carry at most one fractional digit.                         *)
(***************************************************************************)
EXTENDS Integers, Sequences, FiniteSets, TLC

VARIABLES
    entities,      \* MQTTDevice.entities: the ordered entity list
    heat_only,     \* MQTTClimate.heat_only
    has_presets,   \* MQTTClimate.has_presets
    kwargs,        \* MQTTEntityBase.kwargs, per entity: the caller's overrides
    nsName,        \* UserNamespace.name
    store,         \* the external state store: namespace -> location -> value
    curTemp,       \* MQTTClimate._current_temperature
    listeners,     \* handlers registered with listen_event, per topic
    retained,      \* the broker's retained message per topic
    last           \* the last operation and the effects it had, in order

vars == <<entities, heat_only, has_presets, kwargs, nsName, store, curTemp,
          listeners, retained, last>>

(***************************************************************************)
(* Python values                                                           *)
(***************************************************************************)
None == <<"none">>
Str(s) == <<"str", s>>
Float(n) == <<"float", n>>
Bool(b) == <<"bool", b>>
\* an exception travelling up the call stack
RAISE == <<"raise">>

IsNumeric(v) == v[1] \in {"float", "bool"}
NumOf(v) == IF v[1] = "bool" THEN (IF v[2] THEN 10 ELSE 0) ELSE v[2]

\* Python's ==  (True == 1.0 holds; values of other types compare by content)
PyEq(a, b) ==
    IF IsNumeric(a) /\ IsNumeric(b) THEN NumOf(a) = NumOf(b) ELSE a = b

\* Python's truth value, as used by  "ON" if x else "OFF"
Truthy(v) ==
    CASE v[1] = "none" -> FALSE
      [] v[1] = "bool" -> v[2]
      [] v[1] = "float" -> v[2] # 0
      [] v[1] = "str" -> Len(v[2]) > 0
      [] OTHER -> FALSE

(***************************************************************************)
(* Text: str.lower() and float()                                           *)
(***************************************************************************)
UpperChars == <<"A", "B", "C", "D", "E", "F", "G", "H", "I", "J", "K", "L", "M",
                "N", "O", "P", "Q", "R", "S", "T", "U", "V", "W", "X", "Y", "Z">>
LowerChars == <<"a", "b", "c", "d", "e", "f", "g", "h", "i", "j", "k", "l", "m",
                "n", "o", "p", "q", "r", "s", "t", "u", "v", "w", "x", "y", "z">>
DigitChars == <<"0", "1", "2", "3", "4", "5", "6", "7", "8", "9">>

LowerChar(c) ==
    IF \E i \in 1..Len(UpperChars) : UpperChars[i] = c
    THEN LowerChars[CHOOSE i \in 1..Len(UpperChars) : UpperChars[i] = c]
    ELSE c

\* str.lower()
lower(s) == [i \in 1..Len(s) |-> LowerChar(s[i])]

IsDigit(c) == \E i \in 1..Len(DigitChars) : DigitChars[i] = c
DigitVal(c) == (CHOOSE i \in 1..Len(DigitChars) : DigitChars[i] = c) - 1
AllDigits(s) == \A i \in 1..Len(s) : IsDigit(s[i])

RECURSIVE DigitsVal(_)
DigitsVal(s) ==
    IF Len(s) = 0 THEN 0
    ELSE 10 * DigitsVal(SubSeq(s, 1, Len(s) - 1)) + DigitVal(s[Len(s)])

\* float(text): [sign] digits [ "." digit ], in tenths; anything else raises
\* ValueError.  (Exponents, inf/nan, blanks and further fractional digits
\* are not among the texts drawn.)
ParseFloat(s) ==
    LET signed == Len(s) > 0 /\ s[1] \in {"-", "+"}
        body == IF signed THEN Tail(s) ELSE s
        sign == IF Len(s) > 0 /\ s[1] = "-" THEN -1 ELSE 1
        dots == {i \in 1..Len(body) : body[i] = "."}
    IN  IF dots = {}
        THEN IF Len(body) > 0 /\ AllDigits(body)
             THEN Float(sign * 10 * DigitsVal(body))
             ELSE RAISE
        ELSE IF Cardinality(dots) = 1
             THEN LET d == CHOOSE i \in dots : TRUE
                      ip == SubSeq(body, 1, d - 1)
                      fp == SubSeq(body, d + 1, Len(body))
                  IN  IF AllDigits(ip) /\ AllDigits(fp)
                         /\ Len(ip) + Len(fp) > 0 /\ Len(fp) <= 1
                      THEN Float(sign * (10 * DigitsVal(ip) + DigitsVal(fp)))
                      ELSE RAISE
             ELSE RAISE

\* Python's float(x)
float(v) ==
    CASE v[1] = "float" -> v
      [] v[1] = "bool" -> Float(NumOf(v))
      [] v[1] = "str" -> ParseFloat(v[2])
      [] OTHER -> RAISE

(***************************************************************************)
(* utils.py                                                                *)
(***************************************************************************)
bool_true == {<<"y">>, <<"y", "e", "s">>, <<"t", "r", "u", "e">>, <<"o", "n">>}
bool_false == {<<"n">>, <<"n", "o">>, <<"f", "a", "l", "s", "e">>, <<"o", "f", "f">>}

\* str_to_bool(value): membership in the two token sets, as given
str_to_bool(v) ==
    IF v[1] = "str" /\ v[2] \in bool_true THEN Bool(TRUE)
    ELSE IF v[1] = "str" /\ v[2] \in bool_false THEN Bool(FALSE)
    ELSE None

\* value.lower(): only text has the method
lower_of(v) == IF v[1] = "str" THEN Str(lower(v[2])) ELSE RAISE

(***************************************************************************)
(* Bounds and drawn inputs                                                 *)
(***************************************************************************)
\* configure() runs at most this many times (startup, then reconnects)
MaxConfigure == 2

Variants == {"climate", "number", "switch", "sensor", "binary_sensor", "button"}

\* the entity lists a device is constructed with
Devices == {<<"climate">>, <<"number", "switch">>,
            <<"sensor", "binary_sensor", "button">>}

\* ADAPI's own namespace, used when a call names none
ApiNamespace == "default"
Namespaces == {"default", "user"}

(***************************************************************************)
(* Identity and topics (MQTTEntityBase.__init__ and the variants)          *)
(***************************************************************************)
\* (the per-variant names are tabulated once)
prefix == "cat"
EntityIds == [v \in Variants |-> prefix \o "_" \o v]
entity_id(v) == EntityIds[v]
FullEntityIds == [v \in Variants |-> v \o "." \o entity_id(v)]
full_entity_id(v) == FullEntityIds[v]
ConfigTopicOf ==
    [v \in Variants |-> "homeassistant/" \o v \o "/" \o entity_id(v) \o "/config"]
config_topic(v) == ConfigTopicOf[v]

mode_command_topic == "homeassistant/climate/" \o entity_id("climate") \o "/mode/set"
mode_state_topic == "homeassistant/climate/" \o entity_id("climate") \o "/mode/state"
preset_command_topic ==
    "homeassistant/climate/" \o entity_id("climate") \o "/preset_mode/set"
preset_state_topic ==
    "homeassistant/climate/" \o entity_id("climate") \o "/preset_mode/state"
temperature_command_topic ==
    "homeassistant/climate/" \o entity_id("climate") \o "/temperature/set"
temperature_state_topic ==
    "homeassistant/climate/" \o entity_id("climate") \o "/temperature/state"
current_temperature_topic ==
    "homeassistant/climate/" \o entity_id("climate") \o "/current_temperature/state"

\* Number, Switch: .../set ; Button: .../command
CommandTopicOf ==
    [v \in Variants |->
        "homeassistant/" \o v \o "/" \o entity_id(v)
            \o (IF v = "button" THEN "/command" ELSE "/set")]
command_topic(v) == CommandTopicOf[v]
\* Number, Switch, Sensor, BinarySensor
StateTopicOf == [v \in Variants |-> "homeassistant/" \o v \o "/" \o entity_id(v)]
state_topic(v) == StateTopicOf[v]

CommandTopics ==
    {mode_command_topic, preset_command_topic, temperature_command_topic,
     command_topic("number"), command_topic("switch"), command_topic("button")}
StateTopics ==
    {mode_state_topic, preset_state_topic, temperature_state_topic,
     current_temperature_topic, state_topic("number"), state_topic("switch"),
     state_topic("sensor"), state_topic("binary_sensor")}
ConfigTopics == {config_topic(v) : v \in Variants}
Topics == CommandTopics \cup StateTopics \cup ConfigTopics

\* the variant a topic belongs to
VariantOf(topic) ==
    CHOOSE v \in Variants :
        \/ topic \in {config_topic(v), command_topic(v), state_topic(v)}
        \/ /\ v = "climate"
           /\ topic \in {mode_command_topic, mode_state_topic, preset_command_topic,
                         preset_state_topic, temperature_command_topic,
                         temperature_state_topic, current_temperature_topic}

\* store locations: (entity, attribute); "state" is the primary state
Locs == {<<full_entity_id("climate"), "state">>,
         <<full_entity_id("climate"), "preset">>,
         <<full_entity_id("climate"), "temperature">>,
         <<full_entity_id("number"), "state">>,
         <<full_entity_id("switch"), "state">>,
         <<full_entity_id("sensor"), "state">>,
         <<full_entity_id("binary_sensor"), "state">>}

\* the variant whose entity a store location belongs to
LocVariant(l) == CHOOSE v \in Variants : full_entity_id(v) = l[1]

(***************************************************************************)
(* Constructor defaults                                                    *)
(***************************************************************************)
\* MQTTClimate(default_temperature=23.5)
default_temperature == Float(235)
\* MQTTNumber(default_value=0), MQTTSensor(default_value=0)
default_value_float == Float(0)
\* MQTTSwitch(default_value=False), MQTTBinarySensor(default_value=False)
default_value_bool == Bool(FALSE)

ON == <<"O", "N">>
OFF == <<"O", "F", "F">>
heat == <<"h", "e", "a", "t">>
off == <<"o", "f", "f">>
home == <<"h", "o", "m", "e">>
away == <<"a", "w", "a", "y">>
sleep == <<"s", "l", "e", "e", "p">>

(***************************************************************************)
(* The state store (external) and UserNamespace                            *)
(***************************************************************************)
\* ADAPI.get_state(entity, attribute, default, namespace=ns)
api_get_state(st, ns, entity, attribute, default) ==
    IF st[ns][<<entity, attribute>>] = None THEN default
    ELSE st[ns][<<entity, attribute>>]

\* UserNamespace.get_state: the fixed namespace is injected
get_state(st, entity, attribute, default) ==
    api_get_state(st, nsName, entity, attribute, default)

\* UserNamespace.get_state_float
get_state_float(st, entity, attribute, default) ==
    LET value == get_state(st, entity, attribute, default)
    IN  IF value = None THEN default
        ELSE IF float(value) = RAISE THEN None
        ELSE float(value)

\* UserNamespace.get_state_bool
get_state_bool(st, entity, attribute, default) ==
    LET value == get_state(st, entity, attribute, default)
    IN  IF value = None THEN default
        ELSE IF value[1] = "bool" THEN value
        ELSE IF lower_of(value) = RAISE THEN None
        ELSE str_to_bool(lower_of(value))

\* utils.get_state_float(api, ...): reads through the api, no namespace given
utils_get_state_float(st, entity, attribute, default) ==
    LET value == api_get_state(st, ApiNamespace, entity, attribute, default)
    IN  IF value = None THEN default
        ELSE IF float(value) = RAISE THEN None
        ELSE float(value)

\* utils.get_state_bool(api, ...)
utils_get_state_bool(st, entity, attribute, default) ==
    LET value == api_get_state(st, ApiNamespace, entity, attribute, default)
    IN  IF value = None THEN default
        ELSE IF value[1] = "bool" THEN value
        ELSE IF lower_of(value) = RAISE THEN None
        ELSE str_to_bool(lower_of(value))

(***************************************************************************)
(* MQTT payload extraction (MQTTEntityBase)                                *)
(* A message's data dict: has = "payload" in data.                         *)
(***************************************************************************)
NoPayload == [has |-> FALSE, payload |-> None]
Payload(v) == [has |-> TRUE, payload |-> v]

_get_string_payload(data, default_value) ==
    IF ~data.has THEN default_value ELSE data.payload

\* mutant of _get_float_payload: a failed conversion yields 0.0
_get_float_payload_zero(data, default_value) ==
    IF ~data.has THEN default_value
    ELSE IF data.payload[1] = "float" THEN data.payload
    ELSE IF float(data.payload) = RAISE THEN Float(0)
    ELSE float(data.payload)

_get_float_payload(data, default_value) ==
    IF ~data.has THEN default_value
    ELSE IF data.payload[1] = "float" THEN data.payload
    ELSE IF float(data.payload) = RAISE THEN default_value
    ELSE float(data.payload)

_get_bool_payload(data, default_value) ==
    IF ~data.has THEN default_value
    ELSE IF data.payload[1] = "bool" THEN data.payload
    ELSE IF str_to_bool(data.payload) = RAISE THEN default_value
    ELSE str_to_bool(data.payload)

(***************************************************************************)
(* Effects.  An operation threads a world w through its calls:             *)
(*   w.store, w.curTemp, w.listeners, w.retained  the state it changes     *)
(*   w.trace   the calls it made on the collaborators, in order            *)
(*   w.exc     an exception left the handler                               *)
(***************************************************************************)
Emit(w, ev) == [w EXCEPT !.trace = Append(@, ev)]

\* Mqtt.mqtt_publish(topic, payload, retain=False): the broker keeps the
\* message only when it is published retained
mqtt_publish(w, topic, payload, retain) ==
    LET w1 == Emit(w, [e |-> "mqtt_publish", topic |-> topic,
                       payload |-> payload, retain |-> retain])
    IN  IF retain THEN [w1 EXCEPT !.retained[topic] = payload] ELSE w1

\* UserNamespace.set_state(entity, state=value) or
\* UserNamespace.set_state(entity, attributes={attribute: value})
set_state(w, entity, attribute, value) ==
    LET w1 == Emit(w, [e |-> "set_state", namespace |-> nsName, entity |-> entity,
                       attribute |-> attribute, value |-> value])
    IN  [w1 EXCEPT !.store[nsName][<<entity, attribute>>] = value]

\* the call ADAPI.get_state(entity, attribute=attribute, namespace=ns) as the
\* store sees it: the location read.  A call through self.api carries no
\* namespace and reads ApiNamespace; a call through self.namespace carries
\* nsName (UserNamespace.get_state: kwargs["namespace"] = self.name)
get_state_call(w, ns, entity, attribute) ==
    Emit(w, [e |-> "get_state", namespace |-> ns, entity |-> entity,
             attribute |-> attribute])

\* MQTTEntityBase._mqtt_subscribe: mqtt_subscribe(topic), then listen_event
\* registers one more callback for MQTT_MESSAGE on the topic
_mqtt_subscribe(w, handler, topic) ==
    LET w1 == Emit(w, [e |-> "listen_event", topic |-> topic, handler |-> handler])
    IN  [w1 EXCEPT !.listeners[topic] = Append(@, handler)]

\* calling an EventHook: self.on_mode_changed() and the like
Fire(w, hook) == Emit(w, [e |-> "fire", hook |-> hook])

\* json.dumps(config)
Json(doc) == <<"json", doc>>

(***************************************************************************)
(* Property setters                                                        *)
(***************************************************************************)
\* MQTTClimate.mode (setter)
Climate_set_mode(w, value) ==
    IF value = None THEN w
    ELSE LET state == api_get_state(w.store, ApiNamespace,
                                    full_entity_id("climate"), "state", None)
             w1 == get_state_call(w, ApiNamespace, full_entity_id("climate"), "state")
         IN  IF PyEq(state, value) THEN w1
             ELSE mqtt_publish(
                      set_state(w1, full_entity_id("climate"), "state", value),
                      mode_state_topic, value, TRUE)

\* MQTTClimate.preset (setter)
Climate_set_preset(w, value) ==
    IF value = None THEN w
    ELSE LET state == api_get_state(w.store, ApiNamespace,
                                    full_entity_id("climate"), "preset", None)
             w1 == get_state_call(w, ApiNamespace, full_entity_id("climate"), "preset")
         IN  IF PyEq(state, value) THEN w1
             ELSE mqtt_publish(
                      set_state(w1, full_entity_id("climate"), "preset", value),
                      preset_state_topic, value, TRUE)

\* MQTTClimate.temperature (setter)
Climate_set_temperature(w, value) ==
    IF value = None THEN w
    ELSE LET state == api_get_state(w.store, ApiNamespace,
                                    full_entity_id("climate"), "temperature", None)
             w1 == get_state_call(w, ApiNamespace, full_entity_id("climate"), "temperature")
         IN  IF PyEq(state, value) THEN w1
             ELSE mqtt_publish(
                      set_state(w1, full_entity_id("climate"), "temperature", value),
                      temperature_state_topic, value, TRUE)

\* MQTTClimate.current_temperature (setter): process-local, not persisted
Climate_set_current_temperature(w, value) ==
    IF value = None THEN w
    ELSE IF PyEq(w.curTemp, value) THEN w
    ELSE mqtt_publish([w EXCEPT !.curTemp = value],
                      current_temperature_topic, value, TRUE)

\* MQTTNumber.state (setter)
Number_set_state(w, value) ==
    IF value = None THEN w
    ELSE LET state == api_get_state(w.store, ApiNamespace,
                                    full_entity_id("number"), "state", None)
             w1 == get_state_call(w, ApiNamespace, full_entity_id("number"), "state")
         IN  IF PyEq(state, value) THEN w1
             ELSE mqtt_publish(
                      set_state(w1, full_entity_id("number"), "state", value),
                      state_topic("number"), value, TRUE)

\* mutant of OnOff: the value goes out as it is
OnOff_raw(value) == value

\* "ON" if value else "OFF"
OnOff(value) == IF Truthy(value) THEN Str(ON) ELSE Str(OFF)

\* MQTTSwitch.state (setter)
Switch_set_state(w, value) ==
    IF value = None THEN w
    ELSE LET state == utils_get_state_bool(w.store, full_entity_id("switch"),
                                            "state", None)
             w1 == get_state_call(w, ApiNamespace, full_entity_id("switch"), "state")
         IN  IF PyEq(state, value) THEN w1
             ELSE mqtt_publish(
                      set_state(w1, full_entity_id("switch"), "state", OnOff(value)),
                      state_topic("switch"), OnOff(value), TRUE)

\* MQTTSensor.state (setter)
Sensor_set_state(w, value) ==
    IF value = None THEN w
    ELSE LET state == utils_get_state_float(w.store, full_entity_id("sensor"),
                                             "state", None)
             w1 == get_state_call(w, ApiNamespace, full_entity_id("sensor"), "state")
         IN  IF PyEq(state, value) THEN w1
             ELSE mqtt_publish(
                      set_state(w1, full_entity_id("sensor"), "state", value),
                      state_topic("sensor"), value, TRUE)

\* MQTTBinarySensor.state (setter)
BinarySensor_set_state(w, value) ==
    IF value = None THEN w
    ELSE LET state == utils_get_state_bool(w.store, full_entity_id("binary_sensor"),
                                            "state", None)
             w1 == get_state_call(w, ApiNamespace, full_entity_id("binary_sensor"), "state")
         IN  IF PyEq(state, value) THEN w1
             ELSE mqtt_publish(
                      set_state(w1, full_entity_id("binary_sensor"), "state",
                                OnOff(value)),
                      state_topic("binary_sensor"), OnOff(value), TRUE)

(***************************************************************************)
(* Property getters                                                        *)
(***************************************************************************)
\* MQTTClimate.mode
Climate_mode(st) ==
    get_state(st, full_entity_id("climate"), "state",
              IF ~heat_only THEN Str(off) ELSE Str(heat))
\* MQTTClimate.preset
Climate_preset(st) == get_state(st, full_entity_id("climate"), "preset", Str(home))
\* MQTTClimate.temperature
Climate_temperature(st) ==
    get_state_float(st, full_entity_id("climate"), "temperature", default_temperature)
\* MQTTNumber.state, MQTTSensor.state
Float_state(st, v) == get_state_float(st, full_entity_id(v), "state", default_value_float)
\* MQTTSwitch.state, MQTTBinarySensor.state
Bool_state(st, v) == get_state_bool(st, full_entity_id(v), "state", default_value_bool)

(***************************************************************************)
(* Discovery config                                                        *)
(***************************************************************************)
device_id == "cat_device"
device_name == "Cat device"
device_model == "Cat"
entity_name(v) == "Cat " \o v

\* the "device" block every config carries
DeviceBlock ==
    [identifiers |-> <<device_id>>, name |-> device_name,
     manufacturer |-> "Cats Ltd.", model |-> device_model]

\* {**a, **b}: b wins on a key of both
Merge(a, b) ==
    [k \in DOMAIN a \cup DOMAIN b |-> IF k \in DOMAIN b THEN b[k] ELSE a[k]]

\* config[key] = value
Put(config, key, value) ==
    [k \in DOMAIN config \cup {key} |-> IF k = key THEN value ELSE config[k]]

\* the value a caller overrides a key with (different from any computed one)
OverrideValue(k) ==
    IF k \in {"modes", "preset_modes"} THEN <<"auto">> ELSE "override"

\* the keyword overrides a caller passes to a constructor
OverrideKeySets(v) ==
    IF v = "climate"
    THEN {{}, {"name"}, {"modes"}, {"mode_command_topic"}, {"preset_modes"}}
    ELSE {{}, {"name"}}
KwargsOver(K) == [k \in K |-> OverrideValue(k)]

\* mutant of Climate_config: heat_only is not consulted
Climate_config_any_mode ==
    LET literal ==
            Merge([mode_state_topic |-> mode_state_topic,
                   temperature_command_topic |-> temperature_command_topic,
                   temperature_state_topic |-> temperature_state_topic,
                   current_temperature_topic |-> current_temperature_topic,
                   precision |-> 1,
                   temp_step |-> 5,
                   unique_id |-> entity_id("climate"),
                   object_id |-> entity_id("climate"),
                   modes |-> <<"off", "heat">>,
                   name |-> entity_name("climate"),
                   device |-> DeviceBlock],
                  kwargs["climate"])
        withMode == Put(literal, "mode_command_topic", mode_command_topic)
    IN  IF has_presets
        THEN Put(Put(Put(withMode,
                         "preset_mode_command_topic", preset_command_topic),
                     "preset_mode_state_topic", preset_state_topic),
                 "preset_modes", <<"home", "away", "sleep">>)
        ELSE withMode

\* MQTTClimate.configure: the config dict, kwargs merged by the literal, the
\* mode and preset keys assigned afterwards
Climate_config ==
    LET literal ==
            Merge([mode_state_topic |-> mode_state_topic,
                   temperature_command_topic |-> temperature_command_topic,
                   temperature_state_topic |-> temperature_state_topic,
                   current_temperature_topic |-> current_temperature_topic,
                   precision |-> 1,
                   temp_step |-> 5,
                   unique_id |-> entity_id("climate"),
                   object_id |-> entity_id("climate"),
                   modes |-> IF heat_only THEN <<"heat">> ELSE <<"off", "heat">>,
                   name |-> entity_name("climate"),
                   device |-> DeviceBlock],
                  kwargs["climate"])
        withMode ==
            IF ~heat_only
            THEN Put(literal, "mode_command_topic", mode_command_topic)
            ELSE literal
    IN  IF has_presets
        THEN Put(Put(Put(withMode,
                         "preset_mode_command_topic", preset_command_topic),
                     "preset_mode_state_topic", preset_state_topic),
                 "preset_modes", <<"home", "away", "sleep">>)
        ELSE withMode

\* MQTTNumber.configure: min_value=0, max_value=100, step=0.1, mode="box"
Number_config ==
    Merge([platform |-> "number",
           command_topic |-> command_topic("number"),
           state_topic |-> state_topic("number"),
           min |-> 0, max |-> 1000, step |-> 1, mode |-> "box",
           unique_id |-> entity_id("number"),
           object_id |-> entity_id("number"),
           name |-> entity_name("number"),
           device |-> DeviceBlock],
          kwargs["number"])

\* MQTTSwitch.configure
Switch_config ==
    Merge([platform |-> "switch",
           command_topic |-> command_topic("switch"),
           state_topic |-> state_topic("switch"),
           unique_id |-> entity_id("switch"),
           object_id |-> entity_id("switch"),
           name |-> entity_name("switch"),
           device |-> DeviceBlock],
          kwargs["switch"])

\* MQTTSensor.configure: state_class="measurement"
Sensor_config ==
    Merge([platform |-> "sensor",
           state_topic |-> state_topic("sensor"),
           unique_id |-> entity_id("sensor"),
           object_id |-> entity_id("sensor"),
           name |-> entity_name("sensor"),
           state_class |-> "measurement",
           device |-> DeviceBlock],
          kwargs["sensor"])

\* MQTTBinarySensor.configure
BinarySensor_config ==
    Merge([platform |-> "binary_sensor",
           state_topic |-> state_topic("binary_sensor"),
           unique_id |-> entity_id("binary_sensor"),
           object_id |-> entity_id("binary_sensor"),
           name |-> entity_name("binary_sensor"),
           device |-> DeviceBlock],
          kwargs["binary_sensor"])

\* MQTTButton.configure
Button_config ==
    Merge([platform |-> "button",
           command_topic |-> command_topic("button"),
           unique_id |-> entity_id("button"),
           object_id |-> entity_id("button"),
           name |-> entity_name("button"),
           device |-> DeviceBlock],
          kwargs["button"])

\* self.mqtt.mqtt_publish(self.config_topic, json.dumps(config)): no retain
\* argument is given, so the publish takes mqtt_publish's default
PublishConfig(w, v, config) == mqtt_publish(w, config_topic(v), Json(config), FALSE)

(***************************************************************************)
(* configure()                                                             *)
(***************************************************************************)
Climate_configure(w) ==
    LET w1 == PublishConfig(w, "climate", Climate_config)
        w2 == IF ~heat_only
              THEN _mqtt_subscribe(w1, "_handle_mode", mode_command_topic)
              ELSE w1
        w3 == IF has_presets
              THEN _mqtt_subscribe(w2, "_handle_preset", preset_command_topic)
              ELSE w2
        w4 == _mqtt_subscribe(w3, "_handle_temperature", temperature_command_topic)
        r4 == get_state_call(w4, nsName, full_entity_id("climate"), "state")
        w5 == mqtt_publish(r4, mode_state_topic, Climate_mode(w4.store), TRUE)
        w6 == IF has_presets
              THEN mqtt_publish(
                       get_state_call(w5, nsName, full_entity_id("climate"),
                                      "preset"),
                       preset_state_topic, Climate_preset(w5.store), TRUE)
              ELSE w5
        r6 == get_state_call(w6, nsName, full_entity_id("climate"), "temperature")
        w7 == mqtt_publish(r6, temperature_state_topic,
                           Climate_temperature(w6.store), TRUE)
    IN  mqtt_publish(w7, current_temperature_topic, w7.curTemp, TRUE)

\* mutant of Number_configure: the state is published before the handler is
\* subscribed
Number_configure_state_first(w) ==
    LET w1 == PublishConfig(w, "number", Number_config)
        r1 == get_state_call(w1, nsName, full_entity_id("number"), "state")
        w2 == mqtt_publish(r1, state_topic("number"),
                           Float_state(w1.store, "number"), TRUE)
    IN  _mqtt_subscribe(w2, "Number._handle_state", command_topic("number"))

Number_configure(w) ==
    LET w1 == PublishConfig(w, "number", Number_config)
        w2 == _mqtt_subscribe(w1, "Number._handle_state", command_topic("number"))
        r2 == get_state_call(w2, nsName, full_entity_id("number"), "state")
    IN  mqtt_publish(r2, state_topic("number"), Float_state(w2.store, "number"), TRUE)

Switch_configure(w) ==
    LET w1 == PublishConfig(w, "switch", Switch_config)
        w2 == _mqtt_subscribe(w1, "Switch._handle_state", command_topic("switch"))
        r2 == get_state_call(w2, nsName, full_entity_id("switch"), "state")
    IN  mqtt_publish(r2, state_topic("switch"),
                     OnOff(Bool_state(w2.store, "switch")), TRUE)

Sensor_configure(w) ==
    LET w1 == PublishConfig(w, "sensor", Sensor_config)
        r1 == get_state_call(w1, nsName, full_entity_id("sensor"), "state")
    IN  mqtt_publish(r1, state_topic("sensor"), Float_state(w1.store, "sensor"), TRUE)

BinarySensor_configure(w) ==
    LET w1 == PublishConfig(w, "binary_sensor", BinarySensor_config)
        r1 == get_state_call(w1, nsName, full_entity_id("binary_sensor"), "state")
    IN  mqtt_publish(r1, state_topic("binary_sensor"),
                     OnOff(Bool_state(w1.store, "binary_sensor")), TRUE)

Button_configure(w) ==
    LET w1 == PublishConfig(w, "button", Button_config)
    IN  _mqtt_subscribe(w1, "_handle_press", command_topic("button"))

\* entity.configure(device), by variant
Entity_configure(w, v) ==
    CASE v = "climate" -> Climate_configure(w)
      [] v = "number" -> Number_configure(w)
      [] v = "switch" -> Switch_configure(w)
      [] v = "sensor" -> Sensor_configure(w)
      [] v = "binary_sensor" -> BinarySensor_configure(w)
      [] v = "button" -> Button_configure(w)

\* MQTTDevice.configure: for entity in self.entities: entity.configure(self)
RECURSIVE Device_configure(_, _)
Device_configure(w, es) ==
    IF es = <<>> THEN w
    ELSE Device_configure(Entity_configure(w, Head(es)), Tail(es))

(***************************************************************************)
(* Command handlers                                                        *)
(***************************************************************************)
\* the call of a setter with a decoded value; an exception raised by the
\* decoder leaves the handler before the setter runs
_handle_mode(w, data) ==
    LET v == _get_string_payload(data, None)
    IN  IF v = RAISE THEN [w EXCEPT !.exc = TRUE]
        ELSE Fire(Climate_set_mode(w, v), "on_mode_changed")

_handle_preset(w, data) ==
    LET v == _get_string_payload(data, None)
    IN  IF v = RAISE THEN [w EXCEPT !.exc = TRUE]
        ELSE Fire(Climate_set_preset(w, v), "on_preset_changed")

_handle_temperature(w, data) ==
    LET v == _get_float_payload(data, None)
    IN  IF v = RAISE THEN [w EXCEPT !.exc = TRUE]
        ELSE Fire(Climate_set_temperature(w, v), "on_temperature_changed")

Number_handle_state(w, data) ==
    LET v == _get_float_payload(data, None)
    IN  IF v = RAISE THEN [w EXCEPT !.exc = TRUE]
        ELSE Fire(Number_set_state(w, v), "Number.on_state_changed")

Switch_handle_state(w, data) ==
    LET v == _get_bool_payload(data, None)
    IN  IF v = RAISE THEN [w EXCEPT !.exc = TRUE]
        ELSE Fire(Switch_set_state(w, v), "Switch.on_state_changed")

_handle_press(w, data) == Fire(w, "on_press")

\* the callback listen_event registered, by name
Handle(w, handler, data) ==
    CASE handler = "_handle_mode" -> _handle_mode(w, data)
      [] handler = "_handle_preset" -> _handle_preset(w, data)
      [] handler = "_handle_temperature" -> _handle_temperature(w, data)
      [] handler = "Number._handle_state" -> Number_handle_state(w, data)
      [] handler = "Switch._handle_state" -> Switch_handle_state(w, data)
      [] handler = "_handle_press" -> _handle_press(w, data)

\* one MQTT_MESSAGE event: every callback registered for the topic is called
RECURSIVE Dispatch(_, _, _)
Dispatch(w, handlers, data) ==
    IF handlers = <<>> THEN w
    ELSE Dispatch(Handle(w, Head(handlers), data), Tail(handlers), data)

(***************************************************************************)
(* The record of the last operation                                        *)
(***************************************************************************)
NoRep == [same |-> FALSE, writes |-> 0, pubs |-> 0, differed |-> FALSE]

NoOp == [op |-> "init", topic |-> "", data |-> NoPayload, trace |-> <<>>,
         exc |-> FALSE, handlers |-> 0, old |-> None, decoded |-> None,
         rep |-> NoRep]

IsSetState(ev) == ev.e = "set_state"
IsPublish(ev) == ev.e = "mqtt_publish"
IsListen(ev) == ev.e = "listen_event"
IsFire(ev) == ev.e = "fire"
Writes(tr) == SelectSeq(tr, IsSetState)
Publishes(tr) == SelectSeq(tr, IsPublish)
Listens(tr) == SelectSeq(tr, IsListen)
Fires(tr) == SelectSeq(tr, IsFire)

\* the store location a command topic's handler writes
CommandLoc(topic) ==
    CASE topic = mode_command_topic -> <<full_entity_id("climate"), "state">>
      [] topic = preset_command_topic -> <<full_entity_id("climate"), "preset">>
      [] topic = temperature_command_topic ->
             <<full_entity_id("climate"), "temperature">>
      [] topic = command_topic("number") -> <<full_entity_id("number"), "state">>
      [] topic = command_topic("switch") -> <<full_entity_id("switch"), "state">>
      [] OTHER -> <<full_entity_id("button"), "state">>

\* the state topic a command topic's handler publishes on
CommandStateTopic(topic) ==
    CASE topic = mode_command_topic -> mode_state_topic
      [] topic = preset_command_topic -> preset_state_topic
      [] topic = temperature_command_topic -> temperature_state_topic
      [] topic = command_topic("number") -> state_topic("number")
      [] topic = command_topic("switch") -> state_topic("switch")
      [] OTHER -> ""

\* what the topic's handler decodes from a message
Decoded(topic, data) ==
    CASE topic \in {mode_command_topic, preset_command_topic} ->
             _get_string_payload(data, None)
      [] topic \in {temperature_command_topic, command_topic("number")} ->
             _get_float_payload(data, None)
      [] topic = command_topic("switch") -> _get_bool_payload(data, None)
      [] OTHER -> None

\* the form in which the topic's setter stores and publishes a value
StoredForm(topic, v) == IF topic = command_topic("switch") THEN OnOff(v) ELSE v

\* the decoded value of a recorded message differed from the stored one
Differed(l) ==
    /\ l.decoded \notin {None, RAISE}
    /\ ~PyEq(StoredForm(l.topic, l.decoded), l.old)

(***************************************************************************)
(* Drawn messages and values                                               *)
(***************************************************************************)
T_21_5 == <<"2", "1", ".", "5">>
T_7 == <<"7">>
T_abc == <<"a", "b", "c">>
T_on == <<"o", "n">>
T_True == <<"T", "r", "u", "e">>
T_maybe == <<"m", "a", "y", "b", "e">>
T_PRESS == <<"P", "R", "E", "S", "S">>

\* the data dicts of the messages delivered on a command topic
Messages(topic) ==
    CASE topic = mode_command_topic ->
             {NoPayload, Payload(Str(heat)), Payload(Str(off))}
      [] topic = preset_command_topic ->
             {NoPayload, Payload(Str(away)), Payload(Str(home))}
      [] topic = temperature_command_topic ->
             {NoPayload, Payload(Str(T_21_5)), Payload(Str(T_abc)),
              Payload(Float(215))}
      [] topic = command_topic("number") ->
             {NoPayload, Payload(Str(T_21_5)), Payload(Str(T_abc)),
              Payload(Str(T_7))}
      [] topic = command_topic("switch") ->
             {NoPayload, Payload(Str(ON)), Payload(Str(T_on)), Payload(Str(off)),
              Payload(Str(T_maybe)), Payload(Bool(TRUE))}
      [] topic = command_topic("button") -> {NoPayload, Payload(Str(T_PRESS))}

\* the values application code assigns to a property
Assigned(property) ==
    CASE property = "current_temperature" -> {None, Float(200)}
      [] property = "Sensor.state" -> {None, Float(0), Float(215)}
      [] property = "BinarySensor.state" -> {Bool(TRUE), Bool(FALSE)}

InDevice(v) == \E i \in 1..Len(entities) : entities[i] = v

(***************************************************************************)
(* Init and the actions                                                    *)
(***************************************************************************)
Init ==
    /\ entities \in Devices
    /\ heat_only \in BOOLEAN
    /\ has_presets \in BOOLEAN
    /\ InDevice("climate") \/ (~heat_only /\ has_presets)
    /\ nsName \in Namespaces
    /\ \E Kc \in OverrideKeySets("climate") :
       \E named \in SUBSET {v \in Variants \ {"climate"} : InDevice(v)} :
           /\ InDevice("climate") \/ Kc = {}
           /\ kwargs = [v \in Variants |->
                           IF v = "climate" THEN KwargsOver(Kc)
                           ELSE IF v \in named THEN KwargsOver({"name"})
                           ELSE KwargsOver({})]
    /\ store = [ns \in Namespaces |->
                   [l \in {x \in Locs : InDevice(LocVariant(x))} |-> None]]
    /\ curTemp = Float(0)
    /\ listeners = [t \in {x \in CommandTopics : InDevice(VariantOf(x))} |-> <<>>]
    /\ retained = [t \in {x \in StateTopics \cup ConfigTopics :
                              InDevice(VariantOf(x))} |-> None]
    /\ last = NoOp

W0 == [store |-> store, curTemp |-> curTemp, listeners |-> listeners,
       retained |-> retained, trace |-> <<>>, exc |-> FALSE]

Commit(w) ==
    /\ store' = w.store
    /\ curTemp' = w.curTemp
    /\ listeners' = w.listeners
    /\ retained' = w.retained
    /\ UNCHANGED <<entities, heat_only, has_presets, kwargs, nsName>>

\* the number of times configure() has run: every device has an entity that
\* subscribes on each run
ConfigureCount ==
    CHOOSE n \in 0..MaxConfigure :
        /\ \A t \in DOMAIN listeners : Len(listeners[t]) <= n
        /\ \E t \in DOMAIN listeners : Len(listeners[t]) = n

\* MQTTDevice.configure(), at startup or on a reconnect
Configure ==
    /\ ConfigureCount < MaxConfigure
    /\ LET w == Device_configure(W0, entities)
       IN  /\ Commit(w)
           /\ last' = [NoOp EXCEPT !.op = "configure", !.trace = w.trace,
                                   !.exc = w.exc]

\* the transport delivers one message on a command topic of the device
Message(topic, data) ==
    /\ topic \in DOMAIN listeners
    /\ LET w == Dispatch(W0, listeners[topic], data)
           same == last.op = "message" /\ last.topic = topic /\ last.data = data
       IN  /\ Commit(w)
           /\ last' = [op |-> "message", topic |-> topic, data |-> data,
                       trace |-> w.trace, exc |-> w.exc,
                       handlers |-> Len(listeners[topic]),
                       old |-> IF CommandLoc(topic) \in Locs
                               THEN store[nsName][CommandLoc(topic)] ELSE None,
                       decoded |-> Decoded(topic, data),
                       rep |-> IF same
                               THEN [same |-> TRUE,
                                     writes |-> Len(Writes(last.trace)),
                                     pubs |-> Len(Publishes(last.trace)),
                                     differed |-> Differed(last)]
                               ELSE NoRep]

\* application code assigns climate.current_temperature
SetCurrentTemperature(value) ==
    /\ InDevice("climate")
    /\ LET w == Climate_set_current_temperature(W0, value)
       IN  /\ Commit(w)
           /\ last' = [NoOp EXCEPT !.op = "set", !.topic = "current_temperature",
                                   !.data = Payload(value), !.trace = w.trace]

\* application code assigns sensor.state
SetSensorState(value) ==
    /\ InDevice("sensor")
    /\ LET w == Sensor_set_state(W0, value)
       IN  /\ Commit(w)
           /\ last' = [NoOp EXCEPT !.op = "set", !.topic = "Sensor.state",
                                   !.data = Payload(value), !.trace = w.trace,
                                   !.old = store[nsName][<<full_entity_id("sensor"),
                                                           "state">>]]

\* application code assigns binary_sensor.state
SetBinarySensorState(value) ==
    /\ InDevice("binary_sensor")
    /\ LET w == BinarySensor_set_state(W0, value)
       IN  /\ Commit(w)
           /\ last' = [NoOp EXCEPT !.op = "set", !.topic = "BinarySensor.state",
                                   !.data = Payload(value), !.trace = w.trace,
                                   !.old = store[nsName][
                                       <<full_entity_id("binary_sensor"), "state">>]]

Next ==
    \/ Configure
    \/ \E topic \in CommandTopics : \E data \in Messages(topic) : Message(topic, data)
    \/ \E value \in Assigned("current_temperature") : SetCurrentTemperature(value)
    \/ \E value \in Assigned("Sensor.state") : SetSensorState(value)
    \/ \E value \in Assigned("BinarySensor.state") : SetBinarySensorState(value)

Spec == Init /\ [][Next]_vars

(***************************************************************************)
(* The coercion functions on drawn inputs: a store holding one drawn value *)
(* for the switch entity in every namespace, and the accessors and payload *)
(* decoders applied to it and to drawn messages.                           *)
(***************************************************************************)
T_OFF_mixed == <<"O", "f", "f">>
T_3_5 == <<"3", ".", "5">>
T_minus3 == <<"-", "3">>

\* text a store or a message may carry
Texts == {ON, OFF, T_on, off, T_True, T_OFF_mixed, <<"Y">>, <<"n", "o">>, T_maybe,
          T_3_5, T_21_5, T_7, T_minus3, T_abc, <<>>}

CoerceInputs == {Str(x) : x \in Texts} \cup {Bool(TRUE), Float(35)}
FloatDefaults == {None, Float(10)}
BoolDefaults == {None, Bool(TRUE), Bool(FALSE)}

CoerceLoc == <<full_entity_id("switch"), "state">>

InitCoerce ==
    /\ entities = <<>>
    /\ heat_only = FALSE
    /\ has_presets = TRUE
    /\ kwargs = [v \in Variants |-> KwargsOver({})]
    /\ nsName \in Namespaces
    /\ \E x \in CoerceInputs \cup {None} :
           store = [ns \in Namespaces |-> [l \in {CoerceLoc} |-> x]]
    /\ curTemp = Float(0)
    /\ listeners = [t \in {} |-> <<>>]
    /\ retained = [t \in {} |-> None]
    /\ last = [op |-> "init", present |-> FALSE, input |-> None,
               default |-> None, result |-> None]


CoerceRec(op, present, input, default, result) ==
    [op |-> op, present |-> present, input |-> input, default |-> default,
     result |-> result]

\* namespace.get_state_float(entity, default=d)
ApplyGetStateFloat(d) ==
    /\ last' = CoerceRec("UserNamespace.get_state_float",
                         store[nsName][CoerceLoc] # None, store[nsName][CoerceLoc], d,
                         get_state_float(store, CoerceLoc[1], CoerceLoc[2], d))
    /\ UNCHANGED <<entities, heat_only, has_presets, kwargs, nsName, store,
                   curTemp, listeners, retained>>

\* namespace.get_state_bool(entity, default=d)
ApplyGetStateBool(d) ==
    /\ last' = CoerceRec("UserNamespace.get_state_bool",
                         store[nsName][CoerceLoc] # None, store[nsName][CoerceLoc], d,
                         get_state_bool(store, CoerceLoc[1], CoerceLoc[2], d))
    /\ UNCHANGED <<entities, heat_only, has_presets, kwargs, nsName, store,
                   curTemp, listeners, retained>>

\* utils.get_state_float(api, entity, default=d)
ApplyUtilsGetStateFloat(d) ==
    /\ last' = CoerceRec("utils.get_state_float",
                         store[ApiNamespace][CoerceLoc] # None,
                         store[ApiNamespace][CoerceLoc], d,
                         utils_get_state_float(store, CoerceLoc[1], CoerceLoc[2], d))
    /\ UNCHANGED <<entities, heat_only, has_presets, kwargs, nsName, store,
                   curTemp, listeners, retained>>

\* utils.get_state_bool(api, entity, default=d)
ApplyUtilsGetStateBool(d) ==
    /\ last' = CoerceRec("utils.get_state_bool",
                         store[ApiNamespace][CoerceLoc] # None,
                         store[ApiNamespace][CoerceLoc], d,
                         utils_get_state_bool(store, CoerceLoc[1], CoerceLoc[2], d))
    /\ UNCHANGED <<entities, heat_only, has_presets, kwargs, nsName, store,
                   curTemp, listeners, retained>>

\* self._get_float_payload(data, d)
ApplyGetFloatPayload(data, d) ==
    /\ last' = CoerceRec("_get_float_payload", data.has, data.payload, d,
                         _get_float_payload(data, d))
    /\ UNCHANGED <<entities, heat_only, has_presets, kwargs, nsName, store,
                   curTemp, listeners, retained>>

\* self._get_bool_payload(data, d)
ApplyGetBoolPayload(data, d) ==
    /\ last' = CoerceRec("_get_bool_payload", data.has, data.payload, d,
                         _get_bool_payload(data, d))
    /\ UNCHANGED <<entities, heat_only, has_presets, kwargs, nsName, store,
                   curTemp, listeners, retained>>

\* self._get_string_payload(data, d)
ApplyGetStringPayload(data, d) ==
    /\ last' = CoerceRec("_get_string_payload", data.has, data.payload, d,
                         _get_string_payload(data, d))
    /\ UNCHANGED <<entities, heat_only, has_presets, kwargs, nsName, store,
                   curTemp, listeners, retained>>

CoerceData == {NoPayload} \cup {Payload(x) : x \in CoerceInputs}

NextCoerce ==
    \/ \E d \in FloatDefaults : ApplyGetStateFloat(d)
    \/ \E d \in BoolDefaults : ApplyGetStateBool(d)
    \/ \E d \in FloatDefaults : ApplyUtilsGetStateFloat(d)
    \/ \E d \in BoolDefaults : ApplyUtilsGetStateBool(d)
    \/ \E data \in CoerceData : \E d \in FloatDefaults : ApplyGetFloatPayload(data, d)
    \/ \E data \in CoerceData : \E d \in BoolDefaults : ApplyGetBoolPayload(data, d)
    \/ \E data \in CoerceData : \E d \in {None, Str(home)} :
           ApplyGetStringPayload(data, d)

SpecCoerce == InitCoerce /\ [][NextCoerce]_vars

(***************************************************************************)
(* Claims                                                                  *)
(***************************************************************************)
\* the last operation was a message on a command topic that a handler took
Handled == last.op = "message" /\ last.handlers > 0
\* command topics whose handler drives a stored state
StateCommandTopics == CommandTopics \ {command_topic("button")}

\* C1: for a command-driven entity the on-change notification is invoked for
\* an inbound command message only if that message produced a state-store
\* write of a changed value; a message with a missing payload, one that
\* fails to decode or one equal to the stored value invokes no notification.
C1_NotifyOnlyOnChange ==
    (Handled /\ last.topic \in StateCommandTopics /\ Fires(last.trace) # <<>>)
        => (Differed(last) /\ Writes(last.trace) # <<>>)

\* C2: delivering the same command message with a decodable payload that
\* differs from the current state twice in sequence results in exactly one
\* state-store write and exactly one retained publish; the second delivery
\* performs no write and no publish.
C2_SecondDeliveryNoOp ==
    (Handled /\ last.topic \in StateCommandTopics /\ last.rep.same
        /\ last.rep.differed)
        => /\ last.rep.writes = 1
           /\ last.rep.pubs = 1
           /\ Writes(last.trace) = <<>>
           /\ Publishes(last.trace) = <<>>

\* the payload is absent or cannot be decoded to the type the topic expects
\* (float for Number and Climate temperature, bool for Switch)
IsBoolText(x) == lower(x) \in bool_true \cup bool_false
Undecodable(topic, data) ==
    \/ ~data.has
    \/ /\ topic \in {temperature_command_topic, command_topic("number")}
       /\ float(data.payload) = RAISE
    \/ /\ topic = command_topic("switch")
       /\ data.payload[1] # "bool"
       /\ ~(data.payload[1] = "str" /\ IsBoolText(data.payload[2]))

\* C3: when an inbound command message has no payload field, or its payload
\* cannot be decoded to the topic's expected type, the handler leaves the
\* state store unchanged, publishes nothing to any state topic and returns
\* without raising.
C3_UndecodableLeavesState ==
    (Handled /\ last.topic \in StateCommandTopics
        /\ Undecodable(last.topic, last.data))
        => /\ Writes(last.trace) = <<>>
           /\ Publishes(last.trace) = <<>>
           /\ ~last.exc
           /\ store[nsName][CommandLoc(last.topic)] = last.old

\* C3 witness: a handled Number command whose payload is not a number
C3_Witness ==
    /\ Handled
    /\ last.topic = command_topic("number")
    /\ last.data = Payload(Str(T_abc))
    /\ Writes(last.trace) = <<>>

\* a coercion of text was applied
CoercedText == last.op # "init" /\ last.present /\ last.input[1] = "str"
BoolCoercions ==
    {"_get_bool_payload", "UserNamespace.get_state_bool", "utils.get_state_bool"}
FloatCoercions ==
    {"_get_float_payload", "UserNamespace.get_state_float", "utils.get_state_float"}

\* C4: boolean coercion, in the MQTT payload decoder and in the state-store
\* accessors alike: text equal to one of y, yes, true, on in any letter case
\* yields true; n, no, false, off in any letter case yields false; any other
\* text yields a decode failure (None), not the caller's default.
C4_BoolCoercion ==
    (CoercedText /\ last.op \in BoolCoercions)
        => last.result =
               (IF lower(last.input[2]) \in bool_true THEN Bool(TRUE)
                ELSE IF lower(last.input[2]) \in bool_false THEN Bool(FALSE)
                ELSE None)

\* C5: float coercion, in the MQTT payload decoder and in the state-store
\* accessors alike: a parseable textual number yields its float value
\* whatever the default; a non-parseable text yields a decode failure (None),
\* never the default; the default is returned only when no value is present.
C5_FloatCoercion ==
    (CoercedText /\ last.op \in FloatCoercions)
        => last.result =
               (IF ParseFloat(last.input[2]) # RAISE THEN ParseFloat(last.input[2])
                ELSE None)

Events(tr) == {tr[i] : i \in DOMAIN tr}

\* the discovery document the last configure() published for a variant
ConfigDoc(v) ==
    (CHOOSE ev \in Events(last.trace) : IsPublish(ev) /\ ev.topic = config_topic(v))[
        "payload"][2]

ModeLoc == <<full_entity_id("climate"), "state">>

\* what holds of a heat-only climate whatever it was constructed with:
\* configure() registers no handler on the mode command topic, and a message
\* on mode/set does not change the stored mode
HeatOnlyNoModeCommand ==
    /\ listeners[mode_command_topic] = <<>>
    /\ last.op = "configure" =>
           \A ev \in Events(last.trace) :
               IsListen(ev) => ev.topic # mode_command_topic
    /\ (last.op = "message" /\ last.topic = mode_command_topic) =>
           /\ last.trace = <<>>
           /\ store[nsName][ModeLoc] = last.old
    /\ store[nsName][ModeLoc] = None

\* C6 as claimed: for every Climate constructed with heat_only=True, whatever
\* has_presets and whatever overrides it was given, the discovery config has
\* modes equal to exactly ["heat"] and no mode_command_topic key, and
\* configure() registers no handler on the mode command topic, so a message
\* on mode/set never changes the stored mode.
C6_Original ==
    (InDevice("climate") /\ heat_only)
        => /\ HeatOnlyNoModeCommand
           /\ last.op = "configure" =>
                  /\ ConfigDoc("climate")["modes"] = <<"heat">>
                  /\ "mode_command_topic" \notin DOMAIN ConfigDoc("climate")

\* C6 as amended: for every Climate constructed with heat_only=True, whatever
\* has_presets: the discovery config has modes equal to exactly ["heat"]
\* unless the caller supplied an override for modes, and has no
\* mode_command_topic key unless the caller supplied one as an override (an
\* override is carried as given); whatever the overrides, configure()
\* registers no handler on the mode command topic, so a message on mode/set
\* never changes the stored mode.
C6_HeatOnly ==
    (InDevice("climate") /\ heat_only)
        => /\ HeatOnlyNoModeCommand
           /\ last.op = "configure" =>
                  /\ ConfigDoc("climate")["modes"] =
                         (IF "modes" \in DOMAIN kwargs["climate"]
                          THEN kwargs["climate"]["modes"] ELSE <<"heat">>)
                  /\ IF "mode_command_topic" \in DOMAIN kwargs["climate"]
                     THEN ConfigDoc("climate")["mode_command_topic"] =
                              kwargs["climate"]["mode_command_topic"]
                     ELSE "mode_command_topic" \notin DOMAIN ConfigDoc("climate")

\* C6 witness: a heat-only climate, constructed without overrides, has been
\* configured and its config lists the one mode
C6_Witness ==
    /\ InDevice("climate")
    /\ heat_only
    /\ DOMAIN kwargs["climate"] = {}
    /\ last.op = "configure"
    /\ ConfigDoc("climate")["modes"] = <<"heat">>

\* C7: for every entity variant and every key of the discovery config, if
\* the caller supplied an override for that key at construction, the
\* published discovery config carries the override value, not the computed
\* one; this includes Climate's mode_command_topic and preset keys.
C7_OverrideWins ==
    last.op = "configure"
        => \A i \in 1..Len(entities) :
               \A k \in DOMAIN kwargs[entities[i]] :
                   ConfigDoc(entities[i])[k] = kwargs[entities[i]][k]

OnOffValues == {Str(ON), Str(OFF)}
OnOffTopics == {state_topic("switch"), state_topic("binary_sensor")}
OnOffEntities == {full_entity_id("switch"), full_entity_id("binary_sensor")}

\* C8: every message a Switch or BinarySensor publishes on its state topic,
\* by configure() or by the setter after a change, has a payload that is
\* exactly the string "ON" or the string "OFF", never a boolean; and the
\* value the setter writes to the state store is the same string.
C8_OnOffStrings ==
    /\ \A i \in DOMAIN last.trace :
           LET ev == last.trace[i]
           IN  /\ (IsPublish(ev) /\ ev.topic \in OnOffTopics)
                      => ev.payload \in OnOffValues
               /\ (IsSetState(ev) /\ ev.entity \in OnOffEntities)
                      => /\ ev.value \in OnOffValues
                         /\ i < Len(last.trace)
                         /\ IsPublish(last.trace[i + 1])
                         /\ last.trace[i + 1].topic \in OnOffTopics
                         /\ last.trace[i + 1].payload = ev.value
    /\ \A t \in OnOffTopics \cap DOMAIN retained :
           retained[t] \in OnOffValues \cup {None}

\* C8 witness: a Switch command changed the state: "ON" was written and
\* published
C8_Witness ==
    /\ Handled
    /\ last.topic = command_topic("switch")
    /\ \E i \in DOMAIN last.trace :
           /\ IsSetState(last.trace[i])
           /\ last.trace[i].value = Str(ON)
    /\ retained[state_topic("switch")] = Str(ON)

\* C9: after configure() has run (once at startup, or again on reconnect),
\* each command topic has exactly one registered handler, invoked once per
\* received message; each message on a Button's command topic invokes
\* on_press exactly once, whatever its payload and also without one.
C9_OneHandlerPerTopic ==
    Handled
        => /\ last.handlers = 1
           /\ last.topic = command_topic("button") => Len(Fires(last.trace)) = 1

\* C10: every publish of a discovery-config document to an entity's
\* config_topic by configure() is a retained publish.
C10_ConfigRetained ==
    last.op = "configure"
        => \A ev \in Events(last.trace) :
               (IsPublish(ev) /\ ev.topic \in ConfigTopics) => ev.retain

(***************************************************************************)
(* C11: the location a setter checks and the location it writes            *)
(***************************************************************************)
IsGetState(ev) == ev.e = "get_state"

\* the store location (namespace, entity key, attribute) of a read or a write
StoreLoc(ev) == <<ev.namespace, ev.entity, ev.attribute>>

\* C11: in every operation, each write of the state store is directly
\* preceded by the setter's equality-check read of the same store location
\* (same namespace, entity key and attribute), and every read and every write
\* of the state store is made in the entity's fixed namespace.
C11_CheckReadsWhatIsWritten ==
    \A i \in DOMAIN last.trace :
        LET ev == last.trace[i]
        IN  /\ (IsGetState(ev) \/ IsSetState(ev)) => ev.namespace = nsName
            /\ IsSetState(ev) =>
                   /\ i > 1
                   /\ IsGetState(last.trace[i - 1])
                   /\ StoreLoc(last.trace[i - 1]) = StoreLoc(ev)

(***************************************************************************)
(* C12: the order of the steps of Device.configure()                       *)
(***************************************************************************)
\* the command topics a variant defines, under the flags of the device
CommandTopicsDefined(v) ==
    CASE v = "climate" ->
             (IF heat_only THEN {} ELSE {mode_command_topic})
             \cup (IF has_presets THEN {preset_command_topic} ELSE {})
             \cup {temperature_command_topic}
      [] v \in {"number", "switch", "button"} -> {command_topic(v)}
      [] OTHER -> {}

\* the state topics a variant defines, under the flags of the device
StateTopicsDefined(v) ==
    CASE v = "climate" ->
             {mode_state_topic, temperature_state_topic, current_temperature_topic}
             \cup (IF has_presets THEN {preset_state_topic} ELSE {})
      [] v = "button" -> {}
      [] OTHER -> {state_topic(v)}

\* the store location whose value a state topic carries
StateLoc(topic) ==
    CASE topic = mode_state_topic -> <<full_entity_id("climate"), "state">>
      [] topic = preset_state_topic -> <<full_entity_id("climate"), "preset">>
      [] topic = temperature_state_topic ->
             <<full_entity_id("climate"), "temperature">>
      [] OTHER -> <<full_entity_id(VariantOf(topic)), "state">>

\* the variant's default for the value a state topic carries, as published
DefaultOn(topic) ==
    CASE topic = mode_state_topic -> IF heat_only THEN Str(heat) ELSE Str(off)
      [] topic = preset_state_topic -> Str(home)
      [] topic = temperature_state_topic -> default_temperature
      [] topic \in {state_topic("number"), state_topic("sensor")} ->
             default_value_float
      [] OTHER -> Str(OFF)

\* the entity's current state on a state topic: the stored value, or the
\* default when the store holds none; the in-memory value for Climate's
\* current temperature
CurrentState(topic) ==
    IF topic = current_temperature_topic THEN curTemp
    ELSE IF store[nsName][StateLoc(topic)] # None
         THEN store[nsName][StateLoc(topic)]
         ELSE DefaultOn(topic)

IsStep(ev) == ~IsGetState(ev)

\* the publishes, subscriptions, writes and notifications of a trace
Steps(tr) == SelectSeq(tr, IsStep)

\* the number of steps configure() takes for one entity
StepCount(v) ==
    1 + Cardinality(CommandTopicsDefined(v)) + Cardinality(StateTopicsDefined(v))

\* the number of steps taken before the k-th entity of the device
RECURSIVE StepsBefore(_)
StepsBefore(k) ==
    IF k = 1 THEN 0 ELSE StepsBefore(k - 1) + StepCount(entities[k - 1])

\* C12: the steps of Device.configure() are, entity by entity in list order:
\* one publish of the discovery config to config_topic, then one subscription
\* for each command topic the variant defines, then one retained publish of
\* the current state (stored value, or default) to each state topic of the
\* variant; configure() writes nothing to the state store.
C12_ConfigureOrder ==
    last.op = "configure"
        => LET tr == Steps(last.trace)
           IN  /\ Len(tr) = StepsBefore(Len(entities) + 1)
               /\ Writes(last.trace) = <<>>
               /\ \A k \in 1..Len(entities) :
                      LET v == entities[k]
                          a == StepsBefore(k) + 1
                          nc == Cardinality(CommandTopicsDefined(v))
                          ns == Cardinality(StateTopicsDefined(v))
                      IN  /\ IsPublish(tr[a])
                          /\ tr[a].topic = config_topic(v)
                          /\ \A j \in 1..nc : IsListen(tr[a + j])
                          /\ {tr[a + j].topic : j \in 1..nc} = CommandTopicsDefined(v)
                          /\ \A j \in 1..ns :
                                 /\ IsPublish(tr[a + nc + j])
                                 /\ tr[a + nc + j].retain
                                 /\ tr[a + nc + j].topic \in StateTopicsDefined(v)
                                 /\ tr[a + nc + j].payload
                                        = CurrentState(tr[a + nc + j].topic)
                          /\ {tr[a + nc + j].topic : j \in 1..ns}
                                 = StateTopicsDefined(v)

\* a device of several entities is configured again while the store holds a
\* value, and the stored value is what goes out on the state topic
C12_Witness ==
    /\ last.op = "configure"
    /\ Len(entities) > 1
    /\ \E ev \in Events(last.trace) :
           /\ IsPublish(ev)
           /\ ev.topic \in StateTopics \ {current_temperature_topic}
           /\ store[nsName][StateLoc(ev.topic)] # None
           /\ ev.payload = store[nsName][StateLoc(ev.topic)]

(***************************************************************************)
(* C13: the steps of a handler on a changed value                          *)
(***************************************************************************)
\* C13: when a handled command carries a decoded value that differs from
\* the current state, the steps of the delivery are exactly: one write of the
\* value to the command's store location in the entity's namespace, then one
\* retained publish of the same value to the matching state topic, then the
\* on-change notification; and after every handled command the retained value
\* on the state topic is the entity's current state (the value the store
\* holds, the default while it holds none).
C13_WriteThenPublishThenNotify ==
    (Handled /\ last.topic \in StateCommandTopics)
        => LET tr == Steps(last.trace)
               value == StoredForm(last.topic, last.decoded)
               topic == CommandStateTopic(last.topic)
           IN  /\ Differed(last)
                      => /\ Len(tr) = 3
                         /\ IsSetState(tr[1])
                         /\ tr[1].namespace = nsName
                         /\ <<tr[1].entity, tr[1].attribute>> = CommandLoc(last.topic)
                         /\ tr[1].value = value
                         /\ IsPublish(tr[2])
                         /\ tr[2].topic = topic
                         /\ tr[2].payload = value
                         /\ tr[2].retain
                         /\ IsFire(tr[3])
                         /\ store[nsName][CommandLoc(last.topic)] = value
               /\ retained[topic] = CurrentState(topic)

====
